---- MODULE Spec2Model ----
(***************************************************************************)
(* A model of the future/promise runtime (src/src/future.rs), its          *)
(* combinators wait_all / wait_any, and the structured-concurrency scope   *)
(* (src/src/async.rs).                                                     *)
(*                                                                         *)
(* Spec / FairSpec : one cell shared by a Promise and Future handles;      *)
(*                   threads call set, wait and subscribe concurrently.    *)
(* SpecComb        : wait_all / wait_any over input cells whose promises   *)
(*                   are set or dropped by their owners.                   *)
(* SpecScope       : enter(body) with defer / spawn / async, threads that  *)
(*                   return or panic, and DeferScope::drop.                *)
(* SpecLock        : the Spinlock of src/src/spinlock.rs: lock(), guard    *)
(*                   drops and share().                                    *)
(* SpecRW          : the SpinRWLock of src/src/spinlock.rs: read(),        *)
(*                   write() and guard drops.                              *)
(* SpecEvent /     : the Event of src/src/event.rs: wait(), signal() and   *)
(* FairSpecEvent     reset(), with spurious wake-ups.                      *)
(* SpecAtom        : the Atom of src/src/atom.rs: load() and store() by    *)
(*                   concurrent threads.                                   *)
(* SpecThen        : source.then(f) with f returning an inner future; the  *)
(*                   two promises are set by their owners and a further    *)
(*                   handle of the inner cell is used by another thread.   *)
(***************************************************************************)
EXTENDS Integers, Sequences, FiniteSets, TLC

\* ------------------------------------------------------------------ bounds
NThreads == 3
MaxVal == 2
MaxInputs == 2
MaxActions == 3
MaxStores == 2

Threads == 1..NThreads
Values == 1..MaxVal
Inputs == 1..MaxInputs
Actions == 1..MaxActions

\* Option::None; Some(v) is the value v itself (v >= 1).
None == 0

VARIABLES
    \* ---- the cell: Arc<Spinlock<FutureState<T>>>
    state,       \* FutureState: [value, callbacks, ready_event]
    cnt,         \* Spinlock.cnt (AtomicI64)
    promise,     \* the Promise handle: "live" until set(self, ..) consumes it
    event,       \* the Event boxed in ready_event: [set, sleeping]
    \* ---- threads
    pc,          \* position of each thread in its call
    op,          \* the call a thread makes: "none" | "set" | "wait" | "subscribe"
    arg,         \* the value a setter passes to set
    drained,     \* set's local `callbacks` vector
    ret,         \* the value wait returned to the thread (None: nothing yet)
    \* ---- history (observation only)
    invoked,     \* sequence of callback invocations [cb, by, val]
    registered,  \* callbacks in the order they were pushed on state.callbacks
    \* ---- wait_all / wait_any
    mode,        \* "all" (wait_all) or "any" (wait_any); "none" outside SpecComb
    nIn,         \* the number of futures the iterator yields
    inputs,      \* FutureState of each input cell
    inPromise,   \* each input's Promise: live, setting, set, dropped, none
    inHandles,   \* each input's live Future handles (iterator item, clone)
    aggregate,   \* FutureState of the cell behind the returned future
    aggSets,     \* history: calls of set on the aggregate promise
    arcRefs,     \* strong count of the Arc<Waiter> / Arc<Mutex<Option<Promise>>>
    slot,        \* wait_any's Option<Promise> behind the mutex
    slotHolder,  \* the thread holding wait_any's mutex, or NoThread
    cpc,         \* position of the caller, of each owner and clone holder
    cont,        \* where a thread goes on after running its closures
    idx,         \* the input the iterator is at
    work,        \* closures a thread still has to call or to drop
    called,      \* history: the input closures that were called
    \* ---- DeferScope
    to_run,      \* DeferScope.to_run: the deferred closures, in order
    sc,          \* position of the thread inside enter
    bodyPanicked,\* the body unwound instead of returning
    kinds,       \* history: what each registration was (defer, spawn, async)
    thr,         \* state of the thread each registration started
    futs,        \* FutureState of the cell behind each scope.async future
    fval,        \* the value the closure given to scope.async returns
    pending,     \* drop's local `callbacks` vector
    executed,    \* history: the deferred closures called, in order
    joined,      \* history: threads whose join() has returned
    \* ---- Spinlock (spinlock.rs)
    locked,      \* Spinlock.locked (AtomicBool)
    read_only,   \* Spinlock.read_only (AtomicBool)
    lpc,         \* position of each thread in lock() / share()
    lop,         \* the call a thread is in: "none" | "lock" | "share"
    late,        \* history: the call started when read_only was already set
    \* ---- SpinRWLock (spinlock.rs)
    readers,     \* SpinRWLock.readers (AtomicI16)
    write,       \* SpinRWLock.write (AtomicBool)
    rwpc,        \* position of each thread in read() / write()
    \* ---- Event (event.rs)
    eset,        \* Event.set: the flag behind the mutex
    epc,         \* position of each thread in wait() / signal()
    \* ---- Atom (atom.rs)
    current,     \* Atom.current (AtomicUsize): the number of switches
    data,        \* Atom.data: two SpinRWLock<Option<Arc<T>>> [val, readers, write]
    wlocked,     \* Atom.write_guard.locked
    apc,         \* position of each thread in load() / store()
    aidx,        \* the index get_idx() returned to the thread
    aval,        \* store: the value passed; load: the Option read from the slot
    lo,          \* history: the newest completed store when the load started
    nstore,      \* history: the number of store calls made
    ndone,       \* history: the number of store calls that have returned
    writers,     \* history: the threads that have called store
    \* ---- Future::then (future.rs)
    cells,       \* FutureState of the source, the inner and the new future
    tpromise,    \* the promises of the source and the inner cell
    tpc,         \* position of the caller, of the two owners and of the user
    twork,       \* the callbacks a thread drained and still has to call
    taken,       \* the Option that take() returned to the closure
    tev,         \* the flag of the Event installed in the inner cell
    innerVal,    \* history: the value the inner cell was resolved with
    moved,       \* history: the inner cell's value has been taken out
    resSets,     \* history: calls of set on the new future's promise
    resBy,       \* history: the thread that resolved the new future
    ulate,       \* history: the user's call started after the take
    ugot         \* history: what the user's wait or callback was given

cellVars == <<state, cnt, promise, event>>
threadVars == <<pc, op, arg, drained, ret>>
histVars == <<invoked, registered>>
cellSpecVars == <<cellVars, threadVars, histVars>>
combVars == <<mode, nIn, inputs, inPromise, inHandles, aggregate, aggSets,
              arcRefs, slot, slotHolder, cpc, cont, idx, work, called>>
scopeVars == <<to_run, sc, bodyPanicked, kinds, thr, futs, fval, pending,
               executed, joined>>
lockVars == <<locked, read_only, lpc, lop, late>>
rwVars == <<readers, write, rwpc>>
eventVars == <<eset, epc>>
atomVars == <<current, data, wlocked, apc, aidx, aval, lo, nstore, ndone, writers>>
thenVars == <<cells, tpromise, tpc, twork, taken, tev, innerVal, moved,
              resSets, resBy, ulate, ugot>>
primVars == <<lockVars, rwVars, eventVars, atomVars, thenVars>>
vars == <<cellSpecVars, combVars, scopeVars, primVars>>

\* ------------------------------------------------------ FutureState / Event

\* FutureState::default(): no value, no callbacks, no event.
FutureStateDefault ==
    [value |-> None, callbacks |-> <<>>, ready_event |-> FALSE]

\* Event::new(): flag false, nobody sleeping on the condition variable.
EventNew == [set |-> FALSE, sleeping |-> {}]

\* Promise::new(): the pair shares one default cell; the lock counter is 0.
PromiseNew ==
    /\ state = FutureStateDefault
    /\ cnt = 0
    /\ promise = "live"
    /\ event = EventNew

\* set takes `self: Promise` by value and Promise is not Clone: a call to set
\* is possible only for the owner of the still-unconsumed handle.
PromiseOwned_Cloneable == TRUE

PromiseOwned == promise = "live"

\* The critical section of set: store the value, swap the callback list out.
SetStore(st, v) == [st EXCEPT !.value = v, !.callbacks = <<>>]

\* The critical section of wait: install the event lazily, when the cell
\* has neither an event nor a value.
WaitInstall(st) ==
    IF ~st.ready_event /\ st.value = None
    THEN [st EXCEPT !.ready_event = TRUE]
    ELSE st

\* Vec::push on state.callbacks: the new callback goes last.
PushCallback_Front(cbs, f) == <<f>> \o cbs

PushCallback(cbs, f) == Append(cbs, f)

\* A callback invocation, as the history records it.
Invocation(cb, t, v) == [cb |-> cb, by |-> t, val |-> v]

\* FutureState::new(value): a cell that holds its value from the start.
FutureStateNew(v) == [value |-> v, callbacks |-> <<>>, ready_event |-> FALSE]

\* No wait_all / wait_any call is part of the single-cell specification.
CombUnused ==
    /\ mode = "none" /\ nIn = 0
    /\ inputs = <<>> /\ inPromise = <<>> /\ inHandles = <<>>
    /\ aggregate = FutureStateDefault /\ aggSets = 0
    /\ arcRefs = 0 /\ slot = "none" /\ slotHolder = 0
    /\ cpc = <<>> /\ cont = <<>> /\ idx = 0 /\ work = <<>> /\ called = <<>>

\* No scope is entered in the specifications of the cell and its combinators.
ScopeUnused ==
    /\ to_run = <<>> /\ sc = "none" /\ bodyPanicked = FALSE
    /\ kinds = <<>> /\ thr = <<>> /\ futs = <<>> /\ fval = <<>>
    /\ pending = <<>> /\ executed = <<>> /\ joined = {}

\* No Spinlock of spinlock.rs is part of the specifications of future.rs and
\* async.rs.
LockUnused ==
    /\ locked = FALSE /\ read_only = FALSE
    /\ lpc = <<>> /\ lop = <<>> /\ late = <<>>

\* No SpinRWLock is used either.
RWUnused == readers = 0 /\ write = FALSE /\ rwpc = <<>>

\* No Event of event.rs is used.
EventUnused == eset = FALSE /\ epc = <<>>

\* No Atom is used.
AtomUnused ==
    /\ current = 0 /\ data = <<>> /\ wlocked = FALSE
    /\ apc = <<>> /\ aidx = <<>> /\ aval = <<>> /\ lo = <<>>
    /\ nstore = 0 /\ ndone = 0 /\ writers = {}

\* No call of then is part of the other specifications.
ThenUnused ==
    /\ cells = <<>> /\ tpromise = <<>> /\ tpc = <<>> /\ twork = <<>>
    /\ taken = None /\ tev = FALSE /\ innerVal = None /\ moved = FALSE
    /\ resSets = 0 /\ resBy = "nobody" /\ ulate = FALSE /\ ugot = "none"

\* The primitives and then are not used.
PrimUnused ==
    /\ LockUnused
    /\ RWUnused
    /\ EventUnused
    /\ AtomUnused
    /\ ThenUnused

\* ------------------------------------------------------------------- Init

Init ==
    /\ PromiseNew
    /\ pc = [t \in Threads |-> "idle"]
    /\ op = [t \in Threads |-> "none"]
    /\ arg = [t \in Threads |-> None]
    /\ drained = [t \in Threads |-> <<>>]
    /\ ret = [t \in Threads |-> None]
    /\ invoked = <<>>
    /\ registered = <<>>
    /\ CombUnused
    /\ ScopeUnused
    /\ PrimUnused

\* ------------------------------------------------------------ call entries

\* promise.set(v): consumes the promise handle.
CallSet(t, v) ==
    /\ pc[t] = "idle"
    /\ PromiseOwned
    /\ promise' = "moved"
    /\ op' = [op EXCEPT ![t] = "set"]
    /\ arg' = [arg EXCEPT ![t] = v]
    /\ pc' = [pc EXCEPT ![t] = "lock"]
    /\ UNCHANGED <<state, cnt, event, drained, ret, histVars, combVars, scopeVars, primVars>>

\* future.wait()
CallWait(t) ==
    /\ pc[t] = "idle"
    /\ op' = [op EXCEPT ![t] = "wait"]
    /\ pc' = [pc EXCEPT ![t] = "lock"]
    /\ UNCHANGED <<cellVars, arg, drained, ret, histVars, combVars, scopeVars, primVars>>

\* future.subscribe(f); the callback is identified by the subscribing thread.
CallSubscribe(t) ==
    /\ pc[t] = "idle"
    /\ op' = [op EXCEPT ![t] = "subscribe"]
    /\ pc' = [pc EXCEPT ![t] = "lock"]
    /\ UNCHANGED <<cellVars, arg, drained, ret, histVars, combVars, scopeVars, primVars>>

\* ---------------------------------------------------------------- Spinlock

\* One iteration of `while cnt.fetch_add(1) != 0`: the increment always
\* happens; the lock is held when the old value was 0.
SpinlockLock_Racy(t) ==
    /\ pc[t] = "lock"
    /\ cnt' = cnt + 1
    /\ pc' = [pc EXCEPT ![t] = IF cnt <= 1 THEN "cs" ELSE "undo"]
    /\ UNCHANGED <<state, promise, event, op, arg, drained, ret, histVars, combVars, scopeVars, primVars>>

SpinlockLock(t) ==
    /\ pc[t] = "lock"
    /\ cnt' = cnt + 1
    /\ pc' = [pc EXCEPT ![t] = IF cnt = 0 THEN "cs" ELSE "undo"]
    /\ UNCHANGED <<state, promise, event, op, arg, drained, ret, histVars, combVars, scopeVars, primVars>>

\* The loop body after a failed attempt: cnt.fetch_sub(1), then retry.
SpinlockRetry(t) ==
    /\ pc[t] = "undo"
    /\ cnt' = cnt - 1
    /\ pc' = [pc EXCEPT ![t] = "lock"]
    /\ UNCHANGED <<state, promise, event, op, arg, drained, ret, histVars, combVars, scopeVars, primVars>>

\* ------------------------------------------------------------ Promise::set

\* Lines 168-175: under the guard store the value and swap the callbacks
\* into the local vector; the guard is dropped at the end of the block.
PromiseSetLocked(t) ==
    /\ pc[t] = "cs" /\ op[t] = "set"
    /\ state' = SetStore(state, arg[t])
    /\ drained' = [drained EXCEPT ![t] = state.callbacks]
    /\ cnt' = cnt - 1
    /\ pc' = [pc EXCEPT ![t] = "set_signal"]
    /\ UNCHANGED <<promise, event, op, arg, ret, histVars, combVars, scopeVars, primVars>>

\* Lines 176-178: read ready_event without the lock; signal it when present
\* (Event::signal: under the mutex set the flag and notify_all); then take
\* the reference to the value (unwrap panics on None).
PromiseSetSignal(t) ==
    /\ pc[t] = "set_signal"
    /\ event' = IF state.ready_event
                THEN [set |-> TRUE, sleeping |-> {}]
                ELSE event
    /\ pc' = [pc EXCEPT ![t] = IF state.value = None THEN "panic" ELSE "set_run"]
    /\ UNCHANGED <<state, cnt, promise, op, arg, drained, ret, histVars, combVars, scopeVars, primVars>>

\* Lines 179-181: call the drained callbacks in order, each with the
\* reference to the cell's value.
PromiseSetRun(t) ==
    /\ pc[t] = "set_run"
    /\ IF drained[t] = <<>>
       THEN /\ pc' = [pc EXCEPT ![t] = "done"]
            /\ UNCHANGED <<drained, invoked>>
       ELSE /\ invoked' = Append(invoked, Invocation(Head(drained[t]), t, state.value))
            /\ drained' = [drained EXCEPT ![t] = Tail(@)]
            /\ UNCHANGED pc
    /\ UNCHANGED <<cellVars, op, arg, ret, registered, combVars, scopeVars, primVars>>

\* ------------------------------------------------------------ Future::wait

\* Lines 240-245: under the guard, install the event if needed.
FutureWaitLocked(t) ==
    /\ pc[t] = "cs" /\ op[t] = "wait"
    /\ state' = WaitInstall(state)
    /\ event' = IF state'.ready_event /\ ~state.ready_event THEN EventNew ELSE event
    /\ cnt' = cnt - 1
    /\ pc' = [pc EXCEPT ![t] = "wait_event"]
    /\ UNCHANGED <<promise, op, arg, drained, ret, histVars, combVars, scopeVars, primVars>>

\* Lines 246-247: read ready_event without the lock; wait on it when present.
FutureWaitEvent(t) ==
    /\ pc[t] = "wait_event"
    /\ pc' = [pc EXCEPT ![t] = IF state.ready_event THEN "ev_wait" ELSE "wait_get"]
    /\ UNCHANGED <<cellVars, op, arg, drained, ret, histVars, combVars, scopeVars, primVars>>

\* Event::wait, one loop iteration: under the mutex, leave when the flag is
\* set, else wait on the condition variable (which releases the mutex).
EventWait(t) ==
    /\ pc[t] = "ev_wait"
    /\ IF event.set
       THEN /\ pc' = [pc EXCEPT ![t] = "wait_get"]
            /\ UNCHANGED event
       ELSE /\ event' = [event EXCEPT !.sleeping = @ \cup {t}]
            /\ pc' = [pc EXCEPT ![t] = "ev_sleep"]
    /\ UNCHANGED <<state, cnt, promise, op, arg, drained, ret, histVars, combVars, scopeVars, primVars>>

\* Condvar::wait returns after notify_all removed the thread from the
\* sleepers; the loop then checks the flag again.
EventWake(t) ==
    /\ pc[t] = "ev_sleep"
    /\ t \notin event.sleeping
    /\ pc' = [pc EXCEPT ![t] = "ev_wait"]
    /\ UNCHANGED <<cellVars, op, arg, drained, ret, histVars, combVars, scopeVars, primVars>>

\* Condvar::wait may also return spuriously.
EventSpuriousWake(t) ==
    /\ pc[t] = "ev_sleep"
    /\ t \in event.sleeping
    /\ event' = [event EXCEPT !.sleeping = @ \ {t}]
    /\ pc' = [pc EXCEPT ![t] = "ev_wait"]
    /\ UNCHANGED <<state, cnt, promise, op, arg, drained, ret, histVars, combVars, scopeVars, primVars>>

\* Line 248: state.get() = value.as_ref().unwrap().
FutureWaitGet(t) ==
    /\ pc[t] = "wait_get"
    /\ IF state.value = None
       THEN /\ pc' = [pc EXCEPT ![t] = "panic"]
            /\ UNCHANGED ret
       ELSE /\ ret' = [ret EXCEPT ![t] = state.value]
            /\ pc' = [pc EXCEPT ![t] = "done"]
    /\ UNCHANGED <<cellVars, op, arg, drained, histVars, combVars, scopeVars, primVars>>

\* ------------------------------------------------------- Future::subscribe

\* Lines 226-232: under the guard, push the callback when the cell has no
\* value; otherwise drop the guard and go on to call it inline.
FutureSubscribeLocked_DropWhenSet(t) ==
    /\ pc[t] = "cs" /\ op[t] = "subscribe"
    /\ IF state.value = None
       THEN /\ state' = [state EXCEPT !.callbacks = PushCallback(@, t)]
            /\ registered' = Append(registered, t)
       ELSE UNCHANGED <<state, registered>>
    /\ pc' = [pc EXCEPT ![t] = "done"]
    /\ cnt' = cnt - 1
    /\ UNCHANGED <<promise, event, op, arg, drained, ret, invoked, combVars, scopeVars, primVars>>

FutureSubscribeLocked(t) ==
    /\ pc[t] = "cs" /\ op[t] = "subscribe"
    /\ IF state.value = None
       THEN /\ state' = [state EXCEPT !.callbacks = PushCallback(@, t)]
            /\ registered' = Append(registered, t)
            /\ pc' = [pc EXCEPT ![t] = "done"]
       ELSE /\ pc' = [pc EXCEPT ![t] = "sub_inline"]
            /\ UNCHANGED <<state, registered>>
    /\ cnt' = cnt - 1
    /\ UNCHANGED <<promise, event, op, arg, drained, ret, invoked, combVars, scopeVars, primVars>>

\* Lines 233-234: read the value without the lock and call f with it.
FutureSubscribeInline(t) ==
    /\ pc[t] = "sub_inline"
    /\ IF state.value = None
       THEN /\ pc' = [pc EXCEPT ![t] = "panic"]
            /\ UNCHANGED invoked
       ELSE /\ invoked' = Append(invoked, Invocation(t, t, state.value))
            /\ pc' = [pc EXCEPT ![t] = "done"]
    /\ UNCHANGED <<cellVars, op, arg, drained, ret, registered, combVars, scopeVars, primVars>>

\* -------------------------------------------------------------------- Next

\* The steps a running call takes by itself (no spurious wake-up, no entry).
Step(t) ==
    \/ SpinlockLock(t)
    \/ SpinlockRetry(t)
    \/ PromiseSetLocked(t)
    \/ PromiseSetSignal(t)
    \/ PromiseSetRun(t)
    \/ FutureWaitLocked(t)
    \/ FutureWaitEvent(t)
    \/ EventWait(t)
    \/ EventWake(t)
    \/ FutureWaitGet(t)
    \/ FutureSubscribeLocked(t)
    \/ FutureSubscribeInline(t)

Next ==
    \/ \E t \in Threads, v \in Values : CallSet(t, v)
    \/ \E t \in Threads : CallWait(t)
    \/ \E t \in Threads : CallSubscribe(t)
    \/ \E t \in Threads : Step(t)
    \/ \E t \in Threads : EventSpuriousWake(t)

Spec == Init /\ [][Next]_vars

\* Every thread that is inside a call keeps being scheduled.
FairSpec == Spec /\ \A t \in Threads : WF_vars(Step(t))

\* ================================================= wait_all / wait_any
\* Thread 0 calls wait_all / wait_any; thread i owns the promise of input i;
\* thread MaxInputs + i holds a clone of the future of input i.

Caller == 0
Owner(i) == i
Holder(i) == MaxInputs + i
CombThreads == 0..(2 * MaxInputs)
NoThread == 0 - 1

\* The unit value () every aggregate is set to, and the inputs' value.
Unit == 1

\* Arc::drop: the release that finds the strong count at 1 is the last one
\* and runs the destructor of the shared value.
LastReference_OffByOne(refs) == refs <= 2

LastReference(refs) == refs = 1

\* Option::take on the slot leaves None behind.
SlotTake_Keep(sl) == sl

SlotTake(sl) == "empty"

\* The cell of input i is destroyed when no handle is left: the promise is
\* gone (consumed by a finished set, dropped, or never existed) and no
\* Future handle is alive.
CellDead(p, h) == p \in {"set", "dropped", "none"} /\ h = 0

\* Dropping a FutureState drops its callbacks vector: every closure in it is
\* dropped without being called.
DropClosures(cbs) == [k \in 1..Len(cbs) |-> <<"drop", cbs[k]>>]

\* set's for_each over the drained vector calls every closure.
CallClosures(cbs) == [k \in 1..Len(cbs) |-> <<"call", cbs[k]>>]

InitComb ==
    /\ mode \in {"all", "any"}
    /\ nIn \in 0..MaxInputs
    /\ inPromise \in [Inputs -> {"live", "none", "absent"}]
    /\ \A i \in Inputs : (inPromise[i] = "absent") <=> (i > nIn)
    /\ inHandles \in [Inputs -> 0..2]
    /\ \A i \in Inputs : (inHandles[i] = 0) <=> (i > nIn)
    /\ inputs = [i \in Inputs |->
                    IF inPromise[i] = "none" THEN FutureStateNew(Unit)
                                             ELSE FutureStateDefault]
    /\ aggregate = FutureStateDefault
    /\ aggSets = 0
    /\ arcRefs = 0
    /\ slot = "none"
    /\ slotHolder = NoThread
    /\ cpc = [t \in CombThreads |->
                IF t = Caller THEN "start"
                ELSE IF t \in Inputs
                     THEN (IF inPromise[t] = "live" THEN "idle" ELSE "done")
                     ELSE (IF inHandles[t - MaxInputs] = 2 THEN "idle" ELSE "done")]
    /\ cont = [t \in CombThreads |-> "done"]
    /\ idx = 1
    /\ work = [t \in CombThreads |-> <<>>]
    /\ called = <<>>
    \* the single-cell variables are not used
    /\ PromiseNew
    /\ pc = <<>> /\ op = <<>> /\ arg = <<>> /\ drained = <<>> /\ ret = <<>>
    /\ invoked = <<>> /\ registered = <<>>
    /\ ScopeUnused
    /\ PrimUnused

\* ---- the caller: wait_all (277-291) / wait_any (293-309)

\* Promise::new() for the aggregate, then Arc::new(Waiter::new(..)) or
\* Arc::new(Mutex::new(Some(promise))).
CombStart ==
    /\ cpc[Caller] = "start"
    /\ arcRefs' = 1
    /\ slot' = IF mode = "any" THEN "promise" ELSE slot
    /\ cpc' = [cpc EXCEPT ![Caller] = "iter"]
    /\ UNCHANGED <<mode, nIn, inputs, inPromise, inHandles, aggregate, aggSets,
                   slotHolder, cont, idx, work, called, cellSpecVars, scopeVars, primVars>>

\* for_each: the next future f, and waiter.clone() / promise.clone(); after
\* the last one the function returns and drops its own Arc.
CombNext ==
    /\ cpc[Caller] = "iter"
    /\ IF idx <= nIn
       THEN /\ arcRefs' = arcRefs + 1
            /\ cpc' = [cpc EXCEPT ![Caller] = "subscribe"]
            /\ UNCHANGED cont
       ELSE /\ cpc' = [cpc EXCEPT ![Caller] = "release"]
            /\ cont' = [cont EXCEPT ![Caller] = "done"]
            /\ UNCHANGED arcRefs
    /\ UNCHANGED <<mode, nIn, inputs, inPromise, inHandles, aggregate, aggSets,
                   slot, slotHolder, idx, work, called, cellSpecVars, scopeVars, primVars>>

\* f.subscribe(closure) (223-237): push the closure on an empty cell, call
\* it inline on a cell that has its value.
CombSubscribe ==
    /\ cpc[Caller] = "subscribe"
    /\ IF inputs[idx].value = None
       THEN /\ inputs' = [inputs EXCEPT ![idx].callbacks = PushCallback(@, idx)]
            /\ cpc' = [cpc EXCEPT ![Caller] = "dropf"]
            /\ UNCHANGED <<work, cont>>
       ELSE /\ work' = [work EXCEPT ![Caller] = <<<<"call", idx>>>>]
            /\ cont' = [cont EXCEPT ![Caller] = "dropf"]
            /\ cpc' = [cpc EXCEPT ![Caller] = "run"]
            /\ UNCHANGED inputs
    /\ UNCHANGED <<mode, nIn, inPromise, inHandles, aggregate, aggSets, arcRefs,
                   slot, slotHolder, idx, called, cellSpecVars, scopeVars, primVars>>

\* The end of for_each's closure drops f; if that was the cell's last handle
\* the cell is destroyed and the closures still on its list are dropped.
CombDropFuture ==
    /\ cpc[Caller] = "dropf"
    /\ inHandles' = [inHandles EXCEPT ![idx] = @ - 1]
    /\ idx' = idx + 1
    /\ IF CellDead(inPromise[idx], inHandles'[idx])
       THEN /\ work' = [work EXCEPT ![Caller] = DropClosures(inputs[idx].callbacks)]
            /\ inputs' = [inputs EXCEPT ![idx].callbacks = <<>>]
            /\ cont' = [cont EXCEPT ![Caller] = "iter"]
            /\ cpc' = [cpc EXCEPT ![Caller] = "run"]
       ELSE /\ cpc' = [cpc EXCEPT ![Caller] = "iter"]
            /\ UNCHANGED <<work, inputs, cont>>
    /\ UNCHANGED <<mode, nIn, inPromise, aggregate, aggSets, arcRefs,
                   slot, slotHolder, called, cellSpecVars, scopeVars, primVars>>

\* ---- the owner of an input's promise

\* promise.set(v) on input i (167-178): store the value and drain the
\* callbacks under the cell lock; the drained closures are then called.
InputSet(i) ==
    /\ cpc[Owner(i)] = "idle"
    /\ inPromise[i] = "live"
    /\ inPromise' = [inPromise EXCEPT ![i] = "setting"]
    /\ inputs' = [inputs EXCEPT ![i] = SetStore(@, Unit)]
    /\ work' = [work EXCEPT ![Owner(i)] = CallClosures(inputs[i].callbacks)]
    /\ cont' = [cont EXCEPT ![Owner(i)] = "set_ret"]
    /\ cpc' = [cpc EXCEPT ![Owner(i)] = "run"]
    /\ UNCHANGED <<mode, nIn, inHandles, aggregate, aggSets, arcRefs,
                   slot, slotHolder, idx, called, cellSpecVars, scopeVars, primVars>>

\* set returns (182): its `self` goes out of scope.
InputSetReturn(i) ==
    /\ cpc[Owner(i)] = "set_ret"
    /\ inPromise' = [inPromise EXCEPT ![i] = "set"]
    /\ cpc' = [cpc EXCEPT ![Owner(i)] = "done"]
    /\ UNCHANGED <<mode, nIn, inputs, inHandles, aggregate, aggSets, arcRefs,
                   slot, slotHolder, cont, idx, work, called, cellSpecVars, scopeVars, primVars>>

\* The promise of input i is dropped without a set; if it was the cell's
\* last handle the cell and the closures on its list are dropped.
InputDropPromise(i) ==
    /\ cpc[Owner(i)] = "idle"
    /\ inPromise[i] = "live"
    /\ inPromise' = [inPromise EXCEPT ![i] = "dropped"]
    /\ IF CellDead("dropped", inHandles[i])
       THEN /\ work' = [work EXCEPT ![Owner(i)] = DropClosures(inputs[i].callbacks)]
            /\ inputs' = [inputs EXCEPT ![i].callbacks = <<>>]
            /\ cpc' = [cpc EXCEPT ![Owner(i)] = "run"]
       ELSE /\ cpc' = [cpc EXCEPT ![Owner(i)] = "done"]
            /\ UNCHANGED <<work, inputs>>
    /\ UNCHANGED <<mode, nIn, inHandles, aggregate, aggSets, arcRefs,
                   slot, slotHolder, cont, idx, called, cellSpecVars, scopeVars, primVars>>

\* A clone of the future of input i (Future::clone, 146-152) is dropped.
HolderDropFuture(i) ==
    /\ cpc[Holder(i)] = "idle"
    /\ inHandles' = [inHandles EXCEPT ![i] = @ - 1]
    /\ IF CellDead(inPromise[i], inHandles'[i])
       THEN /\ work' = [work EXCEPT ![Holder(i)] = DropClosures(inputs[i].callbacks)]
            /\ inputs' = [inputs EXCEPT ![i].callbacks = <<>>]
            /\ cpc' = [cpc EXCEPT ![Holder(i)] = "run"]
       ELSE /\ cpc' = [cpc EXCEPT ![Holder(i)] = "done"]
            /\ UNCHANGED <<work, inputs>>
    /\ UNCHANGED <<mode, nIn, inPromise, aggregate, aggSets, arcRefs,
                   slot, slotHolder, cont, idx, called, cellSpecVars, scopeVars, primVars>>

\* ---- the closures: |_| drop(waiter) (288) and |_| slot.take().map(set) (301-306)

\* The thread takes the next closure: a call of wait_any's closure starts by
\* locking the mutex; a call of wait_all's closure, and the drop of either
\* closure, releases the captured Arc.
ClosureNext(t) ==
    /\ cpc[t] = "run"
    /\ IF work[t] = <<>>
       THEN /\ cpc' = [cpc EXCEPT ![t] = cont[t]]
            /\ UNCHANGED <<work, called>>
       ELSE /\ work' = [work EXCEPT ![t] = Tail(@)]
            /\ called' = IF Head(work[t])[1] = "call"
                         THEN Append(called, Head(work[t])[2])
                         ELSE called
            /\ cpc' = [cpc EXCEPT ![t] =
                        IF Head(work[t])[1] = "call" /\ mode = "any"
                        THEN "slot_lock" ELSE "release"]
    /\ UNCHANGED <<mode, nIn, inputs, inPromise, inHandles, aggregate, aggSets,
                   arcRefs, slot, slotHolder, cont, idx, cellSpecVars, scopeVars, primVars>>

\* Arc::drop: decrement the strong count; the last release of wait_all's
\* Arc runs Waiter::drop, the last release of wait_any's Arc drops the mutex
\* and whatever promise is still in the slot.
ArcRelease(t) ==
    /\ cpc[t] = "release"
    /\ arcRefs' = arcRefs - 1
    /\ cpc' = [cpc EXCEPT ![t] =
                IF LastReference(arcRefs) /\ mode = "all" THEN "fire" ELSE "run"]
    /\ slot' = IF LastReference(arcRefs) /\ mode = "any" /\ slot = "promise"
               THEN "dropped" ELSE slot
    /\ UNCHANGED <<mode, nIn, inputs, inPromise, inHandles, aggregate, aggSets,
                   slotHolder, cont, idx, work, called, cellSpecVars, scopeVars, primVars>>

\* Waiter::drop (269-275): on_destroy.take().unwrap() is called, which is
\* promise.set(()) on the aggregate.
WaiterDrop(t) ==
    /\ cpc[t] = "fire"
    /\ aggregate' = SetStore(aggregate, Unit)
    /\ aggSets' = aggSets + 1
    /\ cpc' = [cpc EXCEPT ![t] = "run"]
    /\ UNCHANGED <<mode, nIn, inputs, inPromise, inHandles, arcRefs,
                   slot, slotHolder, cont, idx, work, called, cellSpecVars, scopeVars, primVars>>

\* promise.lock() (302-303): Mutex::lock blocks while another thread holds it.
SlotLock(t) ==
    /\ cpc[t] = "slot_lock"
    /\ slotHolder = NoThread
    /\ slotHolder' = t
    /\ cpc' = [cpc EXCEPT ![t] = "slot_take"]
    /\ UNCHANGED <<mode, nIn, inputs, inPromise, inHandles, aggregate, aggSets,
                   arcRefs, slot, cont, idx, work, called, cellSpecVars, scopeVars, primVars>>

\* .take() (304): Some(promise) goes on to set it; None ends the statement,
\* which unlocks the mutex.
SlotTakeStep(t) ==
    /\ cpc[t] = "slot_take"
    /\ IF slot = "promise"
       THEN /\ slot' = SlotTake(slot)
            /\ cpc' = [cpc EXCEPT ![t] = "any_set"]
            /\ UNCHANGED slotHolder
       ELSE /\ slotHolder' = NoThread
            /\ cpc' = [cpc EXCEPT ![t] = "release"]
            /\ UNCHANGED slot
    /\ UNCHANGED <<mode, nIn, inputs, inPromise, inHandles, aggregate, aggSets,
                   arcRefs, cont, idx, work, called, cellSpecVars, scopeVars, primVars>>

\* .map(|promise| promise.set(())) (305): the aggregate is set while the
\* mutex guard is still alive; the guard is dropped at the end of the
\* statement.
SlotSet(t) ==
    /\ cpc[t] = "any_set"
    /\ aggregate' = SetStore(aggregate, Unit)
    /\ aggSets' = aggSets + 1
    /\ slotHolder' = NoThread
    /\ cpc' = [cpc EXCEPT ![t] = "release"]
    /\ UNCHANGED <<mode, nIn, inputs, inPromise, inHandles, arcRefs,
                   slot, cont, idx, work, called, cellSpecVars, scopeVars, primVars>>

NextComb ==
    \/ CombStart
    \/ CombNext
    \/ CombSubscribe
    \/ CombDropFuture
    \/ \E i \in Inputs : InputSet(i)
    \/ \E i \in Inputs : InputSetReturn(i)
    \/ \E i \in Inputs : InputDropPromise(i)
    \/ \E i \in Inputs : HolderDropFuture(i)
    \/ \E t \in CombThreads : ClosureNext(t)
    \/ \E t \in CombThreads : ArcRelease(t)
    \/ \E t \in CombThreads : WaiterDrop(t)
    \/ \E t \in CombThreads : SlotLock(t)
    \/ \E t \in CombThreads : SlotTakeStep(t)
    \/ \E t \in CombThreads : SlotSet(t)

SpecComb == InitComb /\ [][NextComb]_vars

\* ======================================================== DeferScope / enter
\* (src/src/async.rs) Registration k is the k-th call of defer, spawn or
\* async; the thread a spawn or async starts carries the same number.

\* enter (56-59): a scope with an empty to_run; the body is about to run.
InitScope ==
    /\ to_run = <<>>
    /\ sc = "body"
    /\ bodyPanicked = FALSE
    /\ kinds = <<>>
    /\ thr = [k \in Actions |-> "none"]
    /\ futs = [k \in Actions |-> FutureStateDefault]
    /\ fval = [k \in Actions |-> None]
    /\ pending = <<>>
    /\ executed = <<>>
    /\ joined = {}
    \* the variables of the other specifications are not used
    /\ PromiseNew
    /\ pc = <<>> /\ op = <<>> /\ arg = <<>> /\ drained = <<>> /\ ret = <<>>
    /\ invoked = <<>> /\ registered = <<>>
    /\ CombUnused
    /\ PrimUnused

\* The closures spawn defers: `to_join.join().unwrap()`.
JoinOf(k) == <<"join", k>>

\* scope.defer(f) (14-16): push the closure on to_run.
Defer ==
    /\ sc = "body"
    /\ Len(kinds) < MaxActions
    /\ kinds' = Append(kinds, "defer")
    /\ to_run' = Append(to_run, <<"defer", Len(kinds) + 1>>)
    /\ UNCHANGED <<sc, bodyPanicked, thr, futs, fval, pending, executed, joined,
                   cellSpecVars, combVars, primVars>>

\* scope.spawn(f) (18-29): start the thread, then defer its join.
Spawn ==
    /\ sc = "body"
    /\ Len(kinds) < MaxActions
    /\ kinds' = Append(kinds, "spawn")
    /\ thr' = [thr EXCEPT ![Len(kinds) + 1] = "running"]
    /\ to_run' = Append(to_run, JoinOf(Len(kinds) + 1))
    /\ UNCHANGED <<sc, bodyPanicked, futs, fval, pending, executed, joined,
                   cellSpecVars, combVars, primVars>>

\* scope.async(f) (31-40): Promise::new, then spawn(|| promise.set(f())).
Async(v) ==
    /\ sc = "body"
    /\ Len(kinds) < MaxActions
    /\ kinds' = Append(kinds, "async")
    /\ futs' = [futs EXCEPT ![Len(kinds) + 1] = FutureStateDefault]
    /\ fval' = [fval EXCEPT ![Len(kinds) + 1] = v]
    /\ thr' = [thr EXCEPT ![Len(kinds) + 1] = "running"]
    /\ to_run' = Append(to_run, JoinOf(Len(kinds) + 1))
    /\ UNCHANGED <<sc, bodyPanicked, pending, executed, joined,
                   cellSpecVars, combVars, primVars>>

\* The body returns (60): `scope` goes out of scope, its drop runs.
BodyReturn ==
    /\ sc = "body"
    /\ sc' = "drop"
    /\ UNCHANGED <<to_run, bodyPanicked, kinds, thr, futs, fval, pending,
                   executed, joined, cellSpecVars, combVars, primVars>>

\* The body panics: unwinding out of enter drops `scope` as well.
BodyPanic ==
    /\ sc = "body"
    /\ sc' = "drop"
    /\ bodyPanicked' = TRUE
    /\ UNCHANGED <<to_run, kinds, thr, futs, fval, pending, executed, joined,
                   cellSpecVars, combVars, primVars>>

\* DeferScope::drop (45-46): swap to_run into the local vector.
DropSwap ==
    /\ sc = "drop"
    /\ pending' = to_run
    /\ to_run' = <<>>
    /\ sc' = "run"
    /\ UNCHANGED <<bodyPanicked, kinds, thr, futs, fval, executed, joined,
                   cellSpecVars, combVars, primVars>>

\* for_each (47-49) calls a closure registered with defer.
DropCallDeferred ==
    /\ sc = "run"
    /\ pending # <<>>
    /\ Head(pending)[1] = "defer"
    /\ executed' = Append(executed, Head(pending)[2])
    /\ pending' = Tail(pending)
    /\ UNCHANGED <<to_run, sc, bodyPanicked, kinds, thr, futs, fval, joined,
                   cellSpecVars, combVars, primVars>>

\* for_each calls a join closure (26-28): join() blocks until the thread has
\* ended. A thread that returned gives Ok. A thread that panicked gives Err
\* and unwrap panics: the unwinding drops the closures for_each has not
\* reached (their JoinHandles detach the threads) and leaves enter; a panic
\* while the body's panic is already unwinding aborts the process.
DropCallJoin ==
    /\ sc = "run"
    /\ pending # <<>>
    /\ Head(pending)[1] = "join"
    /\ thr[Head(pending)[2]] \in {"finished", "panicked"}
    /\ executed' = Append(executed, Head(pending)[2])
    /\ joined' = joined \cup {Head(pending)[2]}
    /\ IF thr[Head(pending)[2]] = "finished"
       THEN /\ pending' = Tail(pending)
            /\ UNCHANGED sc
       ELSE /\ pending' = <<>>
            /\ sc' = IF bodyPanicked THEN "aborted" ELSE "unwound"
    /\ UNCHANGED <<to_run, bodyPanicked, kinds, thr, futs, fval,
                   cellSpecVars, combVars, primVars>>

\* for_each is through: drop returns and enter returns the body's result,
\* or goes on unwinding the body's panic.
DropReturn ==
    /\ sc = "run"
    /\ pending = <<>>
    /\ sc' = IF bodyPanicked THEN "unwound" ELSE "returned"
    /\ UNCHANGED <<to_run, bodyPanicked, kinds, thr, futs, fval, pending,
                   executed, joined, cellSpecVars, combVars, primVars>>

\* The thread of scope.async: f returned, promise.set(f()) (37).
ThreadSet(k) ==
    /\ sc # "aborted"
    /\ thr[k] = "running"
    /\ k <= Len(kinds) /\ kinds[k] = "async"
    /\ futs' = [futs EXCEPT ![k] = SetStore(@, fval[k])]
    /\ thr' = [thr EXCEPT ![k] = "exiting"]
    /\ UNCHANGED <<to_run, sc, bodyPanicked, kinds, fval, pending, executed,
                   joined, cellSpecVars, combVars, primVars>>

\* The thread's closure (23-25) returns and the thread ends.
ThreadFinish(k) ==
    /\ sc # "aborted"
    /\ k <= Len(kinds)
    /\ \/ thr[k] = "running" /\ kinds[k] = "spawn"
       \/ thr[k] = "exiting"
    /\ thr' = [thr EXCEPT ![k] = "finished"]
    /\ UNCHANGED <<to_run, sc, bodyPanicked, kinds, futs, fval, pending,
                   executed, joined, cellSpecVars, combVars, primVars>>

\* The closure given to spawn / async panics: the thread ends, and the
\* promise of an async is dropped without a set.
ThreadPanic(k) ==
    /\ sc # "aborted"
    /\ thr[k] = "running"
    /\ thr' = [thr EXCEPT ![k] = "panicked"]
    /\ UNCHANGED <<to_run, sc, bodyPanicked, kinds, futs, fval, pending,
                   executed, joined, cellSpecVars, combVars, primVars>>

NextScope ==
    \/ Defer
    \/ Spawn
    \/ \E v \in Values : Async(v)
    \/ BodyReturn
    \/ BodyPanic
    \/ DropSwap
    \/ DropCallDeferred
    \/ DropCallJoin
    \/ DropReturn
    \/ \E k \in Actions : ThreadSet(k)
    \/ \E k \in Actions : ThreadFinish(k)
    \/ \E k \in Actions : ThreadPanic(k)

SpecScope == InitScope /\ [][NextScope]_vars

\* ====================================================== Spinlock (spinlock.rs)
\* One Spinlock<T> shared by the threads, which call lock(), drop the guard
\* they got, and call share().

\* The variables of future.rs and async.rs are not used by the primitives.
CellUnused ==
    /\ PromiseNew
    /\ pc = <<>> /\ op = <<>> /\ arg = <<>> /\ drained = <<>> /\ ret = <<>>
    /\ invoked = <<>> /\ registered = <<>>

notLockVars == <<cellSpecVars, combVars, scopeVars, rwVars, eventVars, atomVars,
     thenVars>>

\* compare_exchange_weak(expected, ..): it can succeed only when the current
\* value is the expected one (and may fail spuriously even then).
CompareExchange_Always(cur, expected) == TRUE

CompareExchange(cur, expected) == cur = expected

\* take (57-59): after a failed exchange the loop gives up when read_only
\* is set.
TakeFails_Never(ro) == FALSE

TakeFails(ro) == ro

\* The threads that hold a SpinlockGuard.
Guards == {t \in Threads : lpc[t] = "held"}

\* Spinlock::new (43-49).
InitLock ==
    /\ locked = FALSE
    /\ read_only = FALSE
    /\ lpc = [t \in Threads |-> "idle"]
    /\ lop = [t \in Threads |-> "none"]
    /\ late = [t \in Threads |-> FALSE]
    /\ CellUnused
    /\ CombUnused
    /\ ScopeUnused
    /\ RWUnused
    /\ EventUnused
    /\ AtomUnused
    /\ ThenUnused

\* lock() (64): enters take.
CallLock(t) ==
    /\ lpc[t] = "idle"
    /\ lpc' = [lpc EXCEPT ![t] = "cas"]
    /\ lop' = [lop EXCEPT ![t] = "lock"]
    /\ late' = [late EXCEPT ![t] = read_only]
    /\ UNCHANGED <<locked, read_only, notLockVars>>

\* share() (74).
CallShare(t) ==
    /\ lpc[t] = "idle"
    /\ lpc' = [lpc EXCEPT ![t] = "sh"]
    /\ lop' = [lop EXCEPT ![t] = "share"]
    /\ late' = [late EXCEPT ![t] = read_only]
    /\ UNCHANGED <<locked, read_only, notLockVars>>

\* share (75): `if !self.read_only()` - take is entered only when the flag
\* is clear.
ShareCheck_NoTake(t) ==
    /\ lpc[t] = "sh"
    /\ lpc' = [lpc EXCEPT ![t] = IF read_only THEN "shared" ELSE "store"]
    /\ UNCHANGED <<locked, read_only, lop, late, notLockVars>>

ShareCheck(t) ==
    /\ lpc[t] = "sh"
    /\ lpc' = [lpc EXCEPT ![t] = IF read_only THEN "shared" ELSE "cas"]
    /\ UNCHANGED <<locked, read_only, lop, late, notLockVars>>

\* take (56): one compare_exchange_weak(false, true). On success lock()
\* returns Some(guard) and share() goes on to its store; on failure the loop
\* body runs.
TakeCas(t) ==
    /\ lpc[t] = "cas"
    /\ \E ok \in (IF CompareExchange(locked, FALSE) THEN {TRUE, FALSE} ELSE {FALSE}) :
          IF ok
          THEN /\ locked' = TRUE
               /\ lpc' = [lpc EXCEPT ![t] = IF lop[t] = "lock" THEN "held" ELSE "store"]
          ELSE /\ locked' = locked
               /\ lpc' = [lpc EXCEPT ![t] = "ro"]
    /\ UNCHANGED <<read_only, lop, late, notLockVars>>

\* take (57-59): the loop body. When read_only is set take returns false:
\* lock() returns None (67-69), share() ignores the result (76).
TakeReadOnly(t) ==
    /\ lpc[t] = "ro"
    /\ lpc' = [lpc EXCEPT ![t] =
                  IF TakeFails(read_only)
                  THEN (IF lop[t] = "lock" THEN "failed" ELSE "store")
                  ELSE "cas"]
    /\ UNCHANGED <<locked, read_only, lop, late, notLockVars>>

\* share (77, 79): store read_only, return the reference.
ShareStore(t) ==
    /\ lpc[t] = "store"
    /\ read_only' = TRUE
    /\ lpc' = [lpc EXCEPT ![t] = "shared"]
    /\ UNCHANGED <<locked, lop, late, notLockVars>>

\* SpinlockGuard::drop (22-26).
GuardDrop(t) ==
    /\ lpc[t] = "held"
    /\ locked' = FALSE
    /\ lpc' = [lpc EXCEPT ![t] = "idle"]
    /\ lop' = [lop EXCEPT ![t] = "none"]
    /\ UNCHANGED <<read_only, late, notLockVars>>

\* The caller goes on after lock() returned None or after it stopped using
\* the reference share() returned.
LockReturn(t) ==
    /\ lpc[t] \in {"failed", "shared"}
    /\ lpc' = [lpc EXCEPT ![t] = "idle"]
    /\ lop' = [lop EXCEPT ![t] = "none"]
    /\ UNCHANGED <<locked, read_only, late, notLockVars>>

NextLock ==
    \/ \E t \in Threads : CallLock(t)
    \/ \E t \in Threads : CallShare(t)
    \/ \E t \in Threads : ShareCheck(t)
    \/ \E t \in Threads : TakeCas(t)
    \/ \E t \in Threads : TakeReadOnly(t)
    \/ \E t \in Threads : ShareStore(t)
    \/ \E t \in Threads : GuardDrop(t)
    \/ \E t \in Threads : LockReturn(t)

SpecLock == InitLock /\ [][NextLock]_vars

\* ==================================================== SpinRWLock (spinlock.rs)
\* One SpinRWLock<T> shared by the threads, which call read() and write()
\* and drop the guards they got.

notRWVars == <<cellSpecVars, combVars, scopeVars, lockVars, eventVars, atomVars,
     thenVars>>

\* write (147): `while self.readers.load() != 0 {}` ends when the count
\* read is zero.
ReadersDrained_Skip(r) == TRUE

ReadersDrained(r) == r = 0

\* The threads that hold a SpinReadGuard / a SpinWriteGuard.
ReadGuards == {t \in Threads : rwpc[t] = "reading"}
WriteGuards == {t \in Threads : rwpc[t] = "writing"}

\* SpinRWLock::new (125-131).
InitRW ==
    /\ readers = 0
    /\ write = FALSE
    /\ rwpc = [t \in Threads |-> "idle"]
    /\ CellUnused
    /\ CombUnused
    /\ ScopeUnused
    /\ LockUnused
    /\ EventUnused
    /\ AtomUnused
    /\ ThenUnused

\* read() (133).
CallRead(t) ==
    /\ rwpc[t] = "idle"
    /\ rwpc' = [rwpc EXCEPT ![t] = "rd_inc"]
    /\ UNCHANGED <<readers, write, notRWVars>>

\* read (135): readers.fetch_add(1).
ReadInc(t) ==
    /\ rwpc[t] = "rd_inc"
    /\ readers' = readers + 1
    /\ rwpc' = [rwpc EXCEPT ![t] = "rd_chk"]
    /\ UNCHANGED <<write, notRWVars>>

\* read (136, 139-142): `if !self.write.load() { break; }` - the guard is
\* returned when the flag read is clear.
ReadCheck(t) ==
    /\ rwpc[t] = "rd_chk"
    /\ rwpc' = [rwpc EXCEPT ![t] = IF ~write THEN "reading" ELSE "rd_dec"]
    /\ UNCHANGED <<readers, write, notRWVars>>

\* read (137): readers.fetch_sub(1), then the loop starts again.
ReadBackoff(t) ==
    /\ rwpc[t] = "rd_dec"
    /\ readers' = readers - 1
    /\ rwpc' = [rwpc EXCEPT ![t] = "rd_inc"]
    /\ UNCHANGED <<write, notRWVars>>

\* SpinReadGuard::drop (161-165).
ReadGuardDrop(t) ==
    /\ rwpc[t] = "reading"
    /\ readers' = readers - 1
    /\ rwpc' = [rwpc EXCEPT ![t] = "idle"]
    /\ UNCHANGED <<write, notRWVars>>

\* write() (145).
CallWrite(t) ==
    /\ rwpc[t] = "idle"
    /\ rwpc' = [rwpc EXCEPT ![t] = "wr_cas"]
    /\ UNCHANGED <<readers, write, notRWVars>>

\* write (146): the exchange that succeeds; a failed one changes nothing and
\* is tried again.
WriteCas(t) ==
    /\ rwpc[t] = "wr_cas"
    /\ CompareExchange(write, FALSE)
    /\ write' = TRUE
    /\ rwpc' = [rwpc EXCEPT ![t] = "wr_wait"]
    /\ UNCHANGED <<readers, notRWVars>>

\* write (147-151): the load of readers that ends the loop; the guard is
\* returned.
WriteWait(t) ==
    /\ rwpc[t] = "wr_wait"
    /\ ReadersDrained(readers)
    /\ rwpc' = [rwpc EXCEPT ![t] = "writing"]
    /\ UNCHANGED <<readers, write, notRWVars>>

\* SpinWriteGuard::drop (155-159).
WriteGuardDrop(t) ==
    /\ rwpc[t] = "writing"
    /\ write' = FALSE
    /\ rwpc' = [rwpc EXCEPT ![t] = "idle"]
    /\ UNCHANGED <<readers, notRWVars>>

NextRW ==
    \/ \E t \in Threads : CallRead(t)
    \/ \E t \in Threads : ReadInc(t)
    \/ \E t \in Threads : ReadCheck(t)
    \/ \E t \in Threads : ReadBackoff(t)
    \/ \E t \in Threads : ReadGuardDrop(t)
    \/ \E t \in Threads : CallWrite(t)
    \/ \E t \in Threads : WriteCas(t)
    \/ \E t \in Threads : WriteWait(t)
    \/ \E t \in Threads : WriteGuardDrop(t)

SpecRW == InitRW /\ [][NextRW]_vars

\* ============================================================ Event (event.rs)
\* One Event shared by the threads. Every method body runs under the mutex
\* `set`, and Condvar::wait gives the mutex up and sleeps in one step, so a
\* method's critical section is one step.

notEventVars == <<cellSpecVars, combVars, scopeVars, lockVars, rwVars, atomVars,
     thenVars>>

\* Condvar::notify_all (34): the sleeping threads that are woken.
NotifyAll_One(sl) == IF sl = {} THEN {} ELSE {CHOOSE t \in sl : TRUE}

NotifyAll(sl) == sl

\* The threads asleep in Condvar::wait.
Sleepers == {t \in Threads : epc[t] = "sleeping"}

\* wait (22-28): the test of the flag under the mutex.
WaitTest(t) == IF eset THEN "returned" ELSE "sleeping"

\* Event::new (9-14).
InitEvent ==
    /\ eset = FALSE
    /\ epc = [t \in Threads |-> "idle"]
    /\ CellUnused
    /\ CombUnused
    /\ ScopeUnused
    /\ LockUnused
    /\ RWUnused
    /\ AtomUnused
    /\ ThenUnused

\* wait() (20-26): lock, test the flag; break or sleep on the condvar.
EvWait(t) ==
    /\ epc[t] = "idle"
    /\ epc' = [epc EXCEPT ![t] = WaitTest(t)]
    /\ UNCHANGED <<eset, notEventVars>>

\* wait (22-26): Condvar::wait has returned with the mutex held; the loop
\* tests the flag again.
EvRecheck(t) ==
    /\ epc[t] \in {"notified", "woken"}
    /\ epc' = [epc EXCEPT ![t] = WaitTest(t)]
    /\ UNCHANGED <<eset, notEventVars>>

\* Condvar::wait may return without a notification.
EvSpurious(t) ==
    /\ epc[t] = "sleeping"
    /\ epc' = [epc EXCEPT ![t] = "woken"]
    /\ UNCHANGED <<eset, notEventVars>>

\* signal() (31-35): lock, set the flag, notify_all.
EvSignal(t) ==
    /\ epc[t] = "idle"
    /\ eset' = TRUE
    /\ epc' = [u \in Threads |->
                 IF u = t THEN "signalled"
                 ELSE IF u \in NotifyAll(Sleepers) THEN "notified"
                 ELSE epc[u]]
    /\ UNCHANGED notEventVars

\* reset() (16-18): lock, clear the flag.
EvReset(t) ==
    /\ epc[t] = "idle"
    /\ eset' = FALSE
    /\ epc' = [epc EXCEPT ![t] = "cleared"]
    /\ UNCHANGED notEventVars

\* The caller goes on after wait(), signal() or reset() has returned.
EvReturn(t) ==
    /\ epc[t] \in {"returned", "signalled", "cleared"}
    /\ epc' = [epc EXCEPT ![t] = "idle"]
    /\ UNCHANGED <<eset, notEventVars>>

NextEvent ==
    \/ \E t \in Threads : EvWait(t)
    \/ \E t \in Threads : EvRecheck(t)
    \/ \E t \in Threads : EvSpurious(t)
    \/ \E t \in Threads : EvSignal(t)
    \/ \E t \in Threads : EvReset(t)
    \/ \E t \in Threads : EvReturn(t)

SpecEvent == InitEvent /\ [][NextEvent]_vars

\* A thread that Condvar::wait has woken is scheduled again.
FairSpecEvent == SpecEvent /\ \A t \in Threads : WF_vars(EvRecheck(t))

\* ============================================================== Atom (atom.rs)
\* One Atom<T> shared by the threads, which call load() and store(). The
\* value given to Atom::new is 1 and the k-th call of store passes k + 1, so
\* a value tells which store wrote it.

notAtomVars == <<cellSpecVars, combVars, scopeVars, lockVars, rwVars, eventVars,
                 thenVars>>

\* SpinRWLock::new(val) (spinlock.rs 125-131).
RWLockNew(v) == [val |-> v, readers |-> 0, write |-> FALSE]

\* get_idx (39-41): current % 2.
GetIdx == current % 2

\* Atom::new (13-20): slot 0 holds the value, slot 1 holds None.
InitAtom ==
    /\ current = 0
    /\ data = [i \in 0..1 |-> IF i = 0 THEN RWLockNew(1) ELSE RWLockNew(None)]
    /\ wlocked = FALSE
    /\ apc = [t \in Threads |-> "idle"]
    /\ aidx = [t \in Threads |-> 0]
    /\ aval = [t \in Threads |-> None]
    /\ lo = [t \in Threads |-> 0]
    /\ nstore = 0
    /\ ndone = 0
    /\ writers = {}
    /\ CellUnused
    /\ CombUnused
    /\ ScopeUnused
    /\ LockUnused
    /\ RWUnused
    /\ EventUnused
    /\ ThenUnused

\* ---- load (22-25)

\* load(): the call starts.
CallLoad(t) ==
    /\ apc[t] = "idle"
    /\ apc' = [apc EXCEPT ![t] = "ld_idx"]
    /\ lo' = [lo EXCEPT ![t] = ndone + 1]
    /\ UNCHANGED <<current, data, wlocked, aidx, aval, nstore, ndone, writers,
                   notAtomVars>>

\* load (23): self.get_idx().
LoadIdx(t) ==
    /\ apc[t] = "ld_idx"
    /\ aidx' = [aidx EXCEPT ![t] = GetIdx]
    /\ apc' = [apc EXCEPT ![t] = "ld_inc"]
    /\ UNCHANGED <<current, data, wlocked, aval, lo, nstore, ndone, writers,
                   notAtomVars>>

\* load (23) in read (spinlock.rs 135): readers.fetch_add(1) on the slot.
LoadReadInc(t) ==
    /\ apc[t] = "ld_inc"
    /\ data' = [data EXCEPT ![aidx[t]].readers = @ + 1]
    /\ apc' = [apc EXCEPT ![t] = "ld_chk"]
    /\ UNCHANGED <<current, wlocked, aidx, aval, lo, nstore, ndone, writers,
                   notAtomVars>>

\* read (spinlock.rs 136): the read guard is returned when the slot's write
\* flag is clear; otherwise the loop backs off.
LoadReadCheck(t) ==
    /\ apc[t] = "ld_chk"
    /\ apc' = [apc EXCEPT ![t] =
                  IF ~data[aidx[t]].write THEN "ld_clone" ELSE "ld_dec"]
    /\ UNCHANGED <<current, data, wlocked, aidx, aval, lo, nstore, ndone,
                   writers, notAtomVars>>

\* read (spinlock.rs 137): readers.fetch_sub(1), then the loop starts again.
LoadReadBackoff(t) ==
    /\ apc[t] = "ld_dec"
    /\ data' = [data EXCEPT ![aidx[t]].readers = @ - 1]
    /\ apc' = [apc EXCEPT ![t] = "ld_inc"]
    /\ UNCHANGED <<current, wlocked, aidx, aval, lo, nstore, ndone, writers,
                   notAtomVars>>

\* load (24): guard.as_ref() - the Option in the slot is read.
LoadClone(t) ==
    /\ apc[t] = "ld_clone"
    /\ aval' = [aval EXCEPT ![t] = data[aidx[t]].val]
    /\ apc' = [apc EXCEPT ![t] = "ld_drop"]
    /\ UNCHANGED <<current, data, wlocked, aidx, lo, nstore, ndone, writers,
                   notAtomVars>>

\* load (24-25): unwrap().clone() and the return, or the panic of unwrap on
\* None; the read guard is dropped either way (spinlock.rs 161-165).
LoadReturn(t) ==
    /\ apc[t] = "ld_drop"
    /\ data' = [data EXCEPT ![aidx[t]].readers = @ - 1]
    /\ apc' = [apc EXCEPT ![t] = IF aval[t] = None THEN "panicked" ELSE "idle"]
    /\ aval' = [aval EXCEPT ![t] = None]
    /\ UNCHANGED <<current, wlocked, aidx, lo, nstore, ndone, writers,
                   notAtomVars>>

\* ---- store (31-37)

\* store(val): the call starts.
CallStore(t) ==
    /\ apc[t] = "idle"
    /\ nstore < MaxStores
    /\ nstore' = nstore + 1
    /\ aval' = [aval EXCEPT ![t] = nstore + 2]
    /\ writers' = writers \cup {t}
    /\ apc' = [apc EXCEPT ![t] = "st_lock"]
    /\ UNCHANGED <<current, data, wlocked, aidx, lo, ndone, notAtomVars>>

\* store (32): self.write_guard.lock() - the exchange of take that succeeds
\* (spinlock.rs 56); read_only is never set on write_guard.
StoreLock(t) ==
    /\ apc[t] = "st_lock"
    /\ CompareExchange(wlocked, FALSE)
    /\ wlocked' = TRUE
    /\ apc' = [apc EXCEPT ![t] = "st_unlock"]
    /\ UNCHANGED <<current, data, aidx, aval, lo, nstore, ndone, writers,
                   notAtomVars>>

\* store (32): `let _ = ...;` binds nothing, so the Option<SpinlockGuard> is
\* a temporary that is dropped at the end of the statement
\* (SpinlockGuard::drop, spinlock.rs 22-26).
StoreUnlock(t) ==
    /\ apc[t] = "st_unlock"
    /\ wlocked' = FALSE
    /\ apc' = [apc EXCEPT ![t] = "st_switch"]
    /\ UNCHANGED <<current, data, aidx, aval, lo, nstore, ndone, writers,
                   notAtomVars>>

\* store (33): self.switch() - current.fetch_add(1) (43-45).
StoreSwitch(t) ==
    /\ apc[t] = "st_switch"
    /\ current' = current + 1
    /\ apc' = [apc EXCEPT ![t] = "st_idx"]
    /\ UNCHANGED <<data, wlocked, aidx, aval, lo, nstore, ndone, writers,
                   notAtomVars>>

\* store (34): self.get_idx().
StoreIdx(t) ==
    /\ apc[t] = "st_idx"
    /\ aidx' = [aidx EXCEPT ![t] = GetIdx]
    /\ apc' = [apc EXCEPT ![t] = "st_wcas"]
    /\ UNCHANGED <<current, data, wlocked, aval, lo, nstore, ndone, writers,
                   notAtomVars>>

\* store (34) in write (spinlock.rs 146): the exchange on the slot's write
\* flag that succeeds.
StoreWriteCas(t) ==
    /\ apc[t] = "st_wcas"
    /\ CompareExchange(data[aidx[t]].write, FALSE)
    /\ data' = [data EXCEPT ![aidx[t]].write = TRUE]
    /\ apc' = [apc EXCEPT ![t] = "st_wwait"]
    /\ UNCHANGED <<current, wlocked, aidx, aval, lo, nstore, ndone, writers,
                   notAtomVars>>

\* write (spinlock.rs 147-151): the load of readers that ends the loop.
StoreWriteWait(t) ==
    /\ apc[t] = "st_wwait"
    /\ ReadersDrained(data[aidx[t]].readers)
    /\ apc' = [apc EXCEPT ![t] = "st_swap"]
    /\ UNCHANGED <<current, data, wlocked, aidx, aval, lo, nstore, ndone,
                   writers, notAtomVars>>

\* store (35-36): mem::swap puts Some(val) into the slot.
StoreSwap(t) ==
    /\ apc[t] = "st_swap"
    /\ data' = [data EXCEPT ![aidx[t]].val = aval[t]]
    /\ apc' = [apc EXCEPT ![t] = "st_ret"]
    /\ UNCHANGED <<current, wlocked, aidx, aval, lo, nstore, ndone, writers,
                   notAtomVars>>

\* store (37): the write guard is dropped (spinlock.rs 155-159) and store
\* returns.
StoreReturn(t) ==
    /\ apc[t] = "st_ret"
    /\ data' = [data EXCEPT ![aidx[t]].write = FALSE]
    /\ ndone' = ndone + 1
    /\ aval' = [aval EXCEPT ![t] = None]
    /\ apc' = [apc EXCEPT ![t] = "idle"]
    /\ UNCHANGED <<current, wlocked, aidx, lo, nstore, writers, notAtomVars>>

NextAtom ==
    \/ \E t \in Threads : CallLoad(t)
    \/ \E t \in Threads : LoadIdx(t)
    \/ \E t \in Threads : LoadReadInc(t)
    \/ \E t \in Threads : LoadReadCheck(t)
    \/ \E t \in Threads : LoadReadBackoff(t)
    \/ \E t \in Threads : LoadClone(t)
    \/ \E t \in Threads : LoadReturn(t)
    \/ \E t \in Threads : CallStore(t)
    \/ \E t \in Threads : StoreLock(t)
    \/ \E t \in Threads : StoreUnlock(t)
    \/ \E t \in Threads : StoreSwitch(t)
    \/ \E t \in Threads : StoreIdx(t)
    \/ \E t \in Threads : StoreWriteCas(t)
    \/ \E t \in Threads : StoreWriteWait(t)
    \/ \E t \in Threads : StoreSwap(t)
    \/ \E t \in Threads : StoreReturn(t)

SpecAtom == InitAtom /\ [][NextAtom]_vars

\* ===================================================== Future::then (future.rs)
\* source.then(f), where f returns a future of the inner cell. The source
\* and the inner cell are either built with their value (Future::new) or
\* resolved by the owner of their promise; a user thread holds one more
\* handle of the inner cell and calls subscribe and wait on it. The critical
\* sections under a cell's lock are single steps.

notThenVars == <<cellSpecVars, combVars, scopeVars, lockVars, rwVars, eventVars,
                 atomVars>>

ThenThreads == {"caller", "srcOwner", "innOwner", "user"}
ThenCells == {"src", "inn", "res"}

\* The thread that owns the promise of a cell.
OwnerOf(c) == IF c = "src" THEN "srcOwner" ELSE "innOwner"

\* subscribe (227-236): the callback is called inline when the cell holds a
\* value, otherwise it is pushed on the list.
SubscribeInline_Never(val) == FALSE

SubscribeInline(val) == val # None

\* then (209-219) is about to be called; Promise::new / Future::new for the
\* source and the inner cell.
InitThen ==
    /\ tpromise \in [{"src", "inn"} -> {"live", "none"}]
    /\ cells = [c \in ThenCells |->
                  IF c = "src" /\ tpromise[c] = "none" THEN FutureStateNew(MaxVal)
                  ELSE IF c = "inn" /\ tpromise[c] = "none" THEN FutureStateNew(1)
                  ELSE FutureStateDefault]
    /\ tpc = [t \in ThenThreads |->
                IF t = "caller" THEN "start"
                ELSE IF t = "user" THEN "idle"
                ELSE IF t = "srcOwner"
                     THEN (IF tpromise["src"] = "live" THEN "idle" ELSE "done")
                     ELSE (IF tpromise["inn"] = "live" THEN "idle" ELSE "done")]
    /\ twork = [t \in ThenThreads |-> <<>>]
    /\ taken = None
    /\ tev = FALSE
    /\ innerVal = IF tpromise["inn"] = "none" THEN 1 ELSE None
    /\ moved = FALSE
    /\ resSets = 0
    /\ resBy = "nobody"
    /\ ulate = FALSE
    /\ ugot = "none"
    /\ CellUnused
    /\ CombUnused
    /\ ScopeUnused
    /\ LockUnused
    /\ RWUnused
    /\ EventUnused
    /\ AtomUnused

\* then (209-219): Promise::new for the new future, then
\* self.subscribe(closure): under the source's lock the closure is pushed,
\* or the lock is dropped and the closure is called inline.
ThenCall ==
    /\ tpc["caller"] = "start"
    /\ IF SubscribeInline(cells["src"].value)
       THEN /\ tpc' = [tpc EXCEPT !["caller"] = "c1"]
            /\ UNCHANGED cells
       ELSE /\ cells' = [cells EXCEPT !["src"].callbacks = PushCallback(@, "then1")]
            /\ tpc' = [tpc EXCEPT !["caller"] = "done"]
    /\ UNCHANGED <<tpromise, twork, taken, tev, innerVal, moved, resSets, resBy,
                   ulate, ugot, notThenVars>>

\* The outer closure (211-217): sub = f(x); borrow = sub.clone();
\* sub.subscribe(inner closure) - under the inner cell's lock the inner
\* closure is pushed, or the lock is dropped and it is called inline.
OuterClosure(t) ==
    /\ tpc[t] = "c1"
    /\ IF SubscribeInline(cells["inn"].value)
       THEN /\ tpc' = [tpc EXCEPT ![t] = "c2_take"]
            /\ UNCHANGED cells
       ELSE /\ cells' = [cells EXCEPT !["inn"].callbacks = PushCallback(@, "then2")]
            /\ tpc' = [tpc EXCEPT ![t] = "run"]
    /\ UNCHANGED <<tpromise, twork, taken, tev, innerVal, moved, resSets, resBy,
                   ulate, ugot, notThenVars>>

\* The inner closure (216) and take (192-194): under the inner cell's lock
\* value.take() leaves None in the cell; unwrap panics when it returns None.
InnerClosureTake(t) ==
    /\ tpc[t] = "c2_take"
    /\ taken' = cells["inn"].value
    /\ cells' = [cells EXCEPT !["inn"].value = None]
    /\ moved' = TRUE
    /\ tpc' = [tpc EXCEPT ![t] = IF cells["inn"].value = None THEN "panicked"
                                                               ELSE "c2_set"]
    /\ UNCHANGED <<tpromise, twork, tev, innerVal, resSets, resBy, ulate, ugot,
                   notThenVars>>

\* The inner closure (216): promise.set(value) on the new future's cell,
\* which has no callbacks and no event.
InnerClosureSet(t) ==
    /\ tpc[t] = "c2_set"
    /\ cells' = [cells EXCEPT !["res"] = SetStore(@, taken)]
    /\ resSets' = resSets + 1
    /\ resBy' = t
    /\ tpc' = [tpc EXCEPT ![t] = "run"]
    /\ UNCHANGED <<tpromise, twork, taken, tev, innerVal, moved, ulate, ugot,
                   notThenVars>>

\* Promise::set (168-175) on the source or the inner cell by its owner:
\* under the lock store the value and swap the callbacks out.
ThenSetLocked(c, v) ==
    /\ tpromise[c] = "live"
    /\ tpc[OwnerOf(c)] = "idle"
    /\ tpromise' = [tpromise EXCEPT ![c] = "moved"]
    /\ cells' = [cells EXCEPT ![c] = SetStore(@, v)]
    /\ twork' = [twork EXCEPT ![OwnerOf(c)] = cells[c].callbacks]
    /\ innerVal' = IF c = "inn" THEN v ELSE innerVal
    /\ tpc' = [tpc EXCEPT ![OwnerOf(c)] = "set_signal"]
    /\ UNCHANGED <<taken, tev, moved, resSets, resBy, ulate, ugot, notThenVars>>

\* Promise::set (176-178) without the lock: signal the event when one is
\* installed (a sleeping waiter goes on to read the value), then
\* state.value.as_ref().unwrap(), which panics when the value has been taken
\* meanwhile; the drained callbacks are then dropped uncalled.
ThenSetSignal(c) ==
    /\ tpc[OwnerOf(c)] = "set_signal"
    /\ tev' = IF c = "inn" /\ cells[c].ready_event THEN TRUE ELSE tev
    /\ tpc' = [t \in ThenThreads |->
                 IF t = OwnerOf(c)
                 THEN (IF cells[c].value = None THEN "panicked" ELSE "run")
                 ELSE IF t = "user" /\ c = "inn" /\ cells[c].ready_event
                         /\ tpc[t] = "ev_sleep"
                      THEN "wait_get"
                      ELSE tpc[t]]
    /\ twork' = [twork EXCEPT ![OwnerOf(c)] =
                    IF cells[c].value = None THEN <<>> ELSE @]
    /\ UNCHANGED <<cells, tpromise, taken, innerVal, moved, resSets, resBy,
                   ulate, ugot, notThenVars>>

\* Promise::set (179-181): the next drained callback is called with the
\* reference taken at 178; once the inner closure has taken the value out,
\* the reference a later callback is given is dangling. A thread that ran
\* the outer closure inline has nothing drained and returns.
RunNext(t) ==
    /\ tpc[t] = "run"
    /\ IF twork[t] = <<>>
       THEN /\ tpc' = [tpc EXCEPT ![t] = "done"]
            /\ UNCHANGED <<twork, ugot>>
       ELSE /\ twork' = [twork EXCEPT ![t] = Tail(@)]
            /\ tpc' = [u \in ThenThreads |->
                         IF u = t
                         THEN (IF Head(twork[t]) = "then1" THEN "c1"
                               ELSE IF Head(twork[t]) = "then2" THEN "c2_take"
                               ELSE "run")
                         ELSE IF u = "user" /\ Head(twork[t]) = "user" THEN "idle"
                         ELSE tpc[u]]
            /\ ugot' = IF Head(twork[t]) = "user"
                       THEN (IF cells["inn"].value = None THEN "dangling" ELSE "value")
                       ELSE ugot
    /\ UNCHANGED <<cells, tpromise, taken, tev, innerVal, moved, resSets, resBy,
                   ulate, notThenVars>>

\* subscribe (223-237) on the user's handle of the inner cell.
UserSubscribe ==
    /\ tpc["user"] = "idle"
    /\ ulate' = moved
    /\ IF SubscribeInline(cells["inn"].value)
       THEN /\ ugot' = "value"
            /\ UNCHANGED <<cells, tpc>>
       ELSE /\ cells' = [cells EXCEPT !["inn"].callbacks = PushCallback(@, "user")]
            /\ tpc' = [tpc EXCEPT !["user"] = "queued"]
            /\ ugot' = "none"
    /\ UNCHANGED <<tpromise, twork, taken, tev, innerVal, moved, resSets, resBy,
                   notThenVars>>

\* wait (240-245) on the user's handle: under the lock the event is
\* installed when the cell has neither an event nor a value.
UserWaitLocked ==
    /\ tpc["user"] = "idle"
    /\ ulate' = moved
    /\ ugot' = "none"
    /\ cells' = [cells EXCEPT !["inn"] = WaitInstall(@)]
    /\ tpc' = [tpc EXCEPT !["user"] = "wait_event"]
    /\ UNCHANGED <<tpromise, twork, taken, tev, innerVal, moved, resSets, resBy,
                   notThenVars>>

\* wait (246-247): ev.wait() when an event is installed; the waiter sleeps
\* until the flag is set.
UserWaitEvent ==
    /\ tpc["user"] = "wait_event"
    /\ tpc' = [tpc EXCEPT !["user"] =
                  IF cells["inn"].ready_event /\ ~tev THEN "ev_sleep" ELSE "wait_get"]
    /\ UNCHANGED <<cells, tpromise, twork, taken, tev, innerVal, moved, resSets,
                   resBy, ulate, ugot, notThenVars>>

\* wait (248): state.get() - value.as_ref().unwrap() (124-126).
UserWaitGet ==
    /\ tpc["user"] = "wait_get"
    /\ tpc' = [tpc EXCEPT !["user"] =
                  IF cells["inn"].value = None THEN "panicked" ELSE "idle"]
    /\ ugot' = IF cells["inn"].value = None THEN ugot ELSE "value"
    /\ UNCHANGED <<cells, tpromise, twork, taken, tev, innerVal, moved, resSets,
                   resBy, ulate, notThenVars>>

NextThen ==
    \/ ThenCall
    \/ \E t \in ThenThreads : OuterClosure(t)
    \/ \E t \in ThenThreads : InnerClosureTake(t)
    \/ \E t \in ThenThreads : InnerClosureSet(t)
    \/ \E c \in {"src", "inn"}, v \in Values : ThenSetLocked(c, v)
    \/ \E c \in {"src", "inn"} : ThenSetSignal(c)
    \/ \E t \in ThenThreads : RunNext(t)
    \/ UserSubscribe
    \/ UserWaitLocked
    \/ UserWaitEvent
    \/ UserWaitGet

SpecThen == InitThen /\ [][NextThen]_vars

\* ================================================================ claims
\* ------------------------------------------------ helpers for the claims

IsPrefix(s, t) == Len(s) <= Len(t) /\ \A i \in 1..Len(s) : s[i] = t[i]

\* The callbacks thread t has invoked, in the order of the invocations.
InvokedBy(t) ==
    LET sel == SelectSeq(invoked, LAMBDA r : r.by = t)
    IN  [i \in 1..Len(sel) |-> sel[i].cb]

\* How often callback cb has been invoked.
TimesInvoked(cb) == Cardinality({i \in 1..Len(invoked) : invoked[i].cb = cb})

SetReturned == \E s \in Threads : op[s] = "set" /\ pc[s] = "done"

\* ---------------------------------------------------------------- C1
\* The wake-up protocol between wait and set: once set has signalled, no
\* waiter sleeps on or is about to block on an unsignalled event, no call
\* panics, and every value wait returned is the value set.
NoLostWakeup ==
    \A s \in Threads :
        (op[s] = "set" /\ pc[s] \in {"set_run", "done"}) =>
            \A t \in Threads :
                /\ pc[t] # "panic"
                /\ (pc[t] = "ev_sleep" => t \notin event.sleeping)
                /\ (pc[t] = "ev_wait" => event.set)
                /\ (ret[t] # None => ret[t] = arg[s])

\* C1: with a single set(v), every wait() call eventually returns, and with
\* v (under FairSpec: every thread inside a call keeps taking steps).
WaitEventuallyReturns ==
    \A t \in Threads :
        (op[t] = "wait" /\ promise = "moved") ~> (pc[t] = "done" /\ ret[t] # None)

\* ---------------------------------------------------------------- C2
\* C2: every subscribed callback is invoked exactly once: never twice, and
\* once when both its subscribe call and the set call have returned.
CallbackExactlyOnce ==
    \A t \in Threads :
        op[t] = "subscribe" =>
            /\ TimesInvoked(t) <= 1
            /\ (pc[t] = "done" /\ SetReturned => TimesInvoked(t) = 1)

\* A callback pushed before set and one called inline have both run once.
CallbackExactlyOnceWitness ==
    /\ SetReturned
    /\ \E t, u \in Threads :
        /\ t # u
        /\ op[t] = "subscribe" /\ op[u] = "subscribe"
        /\ pc[t] = "done" /\ pc[u] = "done"
        /\ \E i, j \in 1..Len(invoked) :
            /\ invoked[i].cb = t /\ invoked[i].by # t
            /\ invoked[j].cb = u /\ invoked[j].by = u

\* ---------------------------------------------------------------- C3
\* C3: the callbacks pushed before set took the lock are invoked by the
\* thread that called set, in registration order, all of them before set
\* returns; a callback subscribed to a cell that already has its value is
\* invoked by the subscribing thread before subscribe returns and is never
\* put on the list (the list stays empty once the value is stored).
CallbackOrderAndThread ==
    /\ \A s \in Threads :
        op[s] = "set" =>
            /\ IsPrefix(InvokedBy(s), registered)
            /\ (pc[s] = "done" => InvokedBy(s) = registered)
    /\ \A i \in 1..Len(invoked) :
        op[invoked[i].by] # "set" =>
            /\ invoked[i].cb = invoked[i].by
            /\ \A k \in 1..Len(registered) : registered[k] # invoked[i].cb
    /\ \A t \in Threads :
        (op[t] = "subscribe" /\ pc[t] = "done"
            /\ \A k \in 1..Len(registered) : registered[k] # t) =>
                \E i \in 1..Len(invoked) : invoked[i] = Invocation(t, t, state.value)
    /\ (state.value # None => state.callbacks = <<>>)

\* set has returned after running two registered callbacks, and a third
\* thread's callback ran inline.
CallbackOrderAndThreadWitness ==
    /\ SetReturned
    /\ Len(registered) >= 1
    /\ \E t \in Threads :
        /\ op[t] = "subscribe" /\ pc[t] = "done"
        /\ \E i \in 1..Len(invoked) : invoked[i].cb = t /\ invoked[i].by = t

\* Two callbacks were registered before set and set has run them.
TwoRegisteredWitness == SetReturned /\ Len(registered) >= 2

\* ---------------------------------------------------------------- C4
\* Every value a reader or a callback has observed is the stored value.
ObservedIsStored ==
    /\ \A t \in Threads : ret[t] # None => ret[t] = state.value
    /\ \A i \in 1..Len(invoked) : invoked[i].val = state.value

\* A set call that has not stored yet finds the cell empty.
SetFindsEmpty ==
    \A t \in Threads :
        (op[t] = "set" /\ pc[t] \in {"lock", "undo", "cs"}) => state.value = None

\* C4: the cell goes from Empty to Set at most once: no set call ever meets
\* a cell that holds a value, a stored value is never replaced, and it is the
\* only value any wait or callback observes.
SetAtMostOnce ==
    /\ [](ObservedIsStored /\ SetFindsEmpty)
    /\ [][state.value # None => state'.value = state.value]_vars

\* The value was stored by a set call that has returned, a wait returned it
\* and a callback was called with it.
SetAtMostOnceWitness ==
    /\ SetReturned
    /\ \E t \in Threads : ret[t] = state.value
    /\ Len(invoked) >= 1

\* ---------------------------------------------------------------- C5
\* C5: whenever the future returned by wait_all is resolved, every input
\* future is resolved.
WaitAllOnlyAfterAllInputs ==
    (mode = "all" /\ aggregate.value # None) =>
        \A i \in 1..nIn : inputs[i].value # None

\* ---------------------------------------------------------------- C6
\* An input is resolved once it was created with its value or the set call
\* on its promise has returned.
InputResolved(i) == inPromise[i] \in {"set", "none"}

\* C6: the aggregate promise of wait_all is never set twice, and once
\* wait_all has returned and every input is resolved it has been set, once.
WaitAllSetsOnce ==
    mode = "all" =>
        /\ aggSets <= 1
        /\ (cpc[Caller] = "done" /\ \A i \in 1..nIn : InputResolved(i)) =>
                (aggregate.value # None /\ aggSets = 1)

\* wait_all over an input that had its value from the start and one that was
\* set by its owner has returned, and the aggregate is set.
WaitAllSetsOnceWitness ==
    /\ mode = "all" /\ nIn >= 2
    /\ cpc[Caller] = "done"
    /\ \E i, j \in 1..nIn : inPromise[i] = "set" /\ inPromise[j] = "none"
    /\ Len(called) = nIn
    /\ aggSets = 1 /\ aggregate.value = Unit

\* ---------------------------------------------------------------- C7
\* C7: the aggregate promise of wait_any is never set twice; it is set only
\* after some input is resolved; the slot is empty exactly from the first
\* take on; and once wait_any has returned and some input is resolved, it
\* has been set, once.
WaitAnySetsOnce ==
    mode = "any" =>
        /\ aggSets <= 1
        /\ (aggregate.value # None => \E i \in 1..nIn : inputs[i].value # None)
        /\ (slot = "empty" <=>
                (aggSets = 1 \/ \E t \in CombThreads : cpc[t] = "any_set"))
        /\ (cpc[Caller] = "done" /\ \E i \in 1..nIn : InputResolved(i)) =>
                (aggregate.value # None /\ aggSets = 1)

\* Two inputs of wait_any were set by their owners, both closures were
\* called, and the aggregate was set once.
WaitAnySetsOnceWitness ==
    /\ mode = "any" /\ nIn >= 2
    /\ \A i \in 1..nIn : inPromise[i] = "set"
    /\ Len(called) = nIn
    /\ \A t \in CombThreads : cpc[t] = "done"
    /\ aggSets = 1

\* ---------------------------------------------------------------- C8
ScopeEnded == sc \in {"returned", "unwound"}

\* C8: no registered action is executed before the body has ended, and when
\* the scope has ended every registered action has been executed exactly
\* once, in registration order.
ScopeRunsEveryAction ==
    /\ (sc \in {"body", "drop"} => executed = <<>>)
    /\ (ScopeEnded => executed = [k \in 1..Len(kinds) |-> k])

\* ---------------------------------------------------------------- C9
\* C9: when enter has returned or unwound, every thread started by spawn or
\* async on the scope has ended and has been joined.
ScopeJoinsEveryThread ==
    ScopeEnded =>
        \A k \in 1..Len(kinds) :
            kinds[k] \in {"spawn", "async"} =>
                (thr[k] \in {"finished", "panicked"} /\ k \in joined)

\* ---------------------------------------------------------------- C10
\* C10: when enter has returned or unwound, the cell of every future got
\* from scope.async whose closure did not panic holds the closure's value.
AsyncResolvedAtExit ==
    ScopeEnded =>
        \A k \in 1..Len(kinds) :
            (kinds[k] = "async" /\ thr[k] # "panicked") =>
                futs[k].value = fval[k]

\* What holds of the scope as long as no spawned closure has panicked: the
\* three statements above.
ScopeSoundWithoutThreadPanic ==
    (\A k \in Actions : thr[k] # "panicked") =>
        (ScopeRunsEveryAction /\ ScopeJoinsEveryThread /\ AsyncResolvedAtExit)

\* ---------------------------------------------------------------- C11
\* C11: at most one SpinlockGuard exists at a time and the lock flag is set
\* while it exists; lock() returns Some(guard) only in a state where no guard
\* is outstanding; and the lock flag is cleared by nothing but the drop of
\* the guard, so an acquisition that follows a guard needs that guard's drop.
SpinlockMutualExclusion ==
    /\ [](Cardinality(Guards) <= 1 /\ (Guards # {} => locked))
    /\ [][\A t \in Threads :
            (lpc[t] # "held" /\ lpc'[t] = "held") => (Guards = {} /\ ~locked)]_vars
    /\ [][(locked /\ ~locked') =>
            \E t \in Threads : lpc[t] = "held" /\ lpc'[t] = "idle"]_vars

\* A guard is held while another thread's lock() has failed its exchange and
\* a third one is about to try.
SpinlockMutualExclusionWitness ==
    \E t, u, w \in Threads :
        /\ lpc[t] = "held"
        /\ lpc[u] = "ro" /\ lop[u] = "lock"
        /\ lpc[w] = "cas" /\ lop[w] = "lock"

\* ---------------------------------------------------------------- C12
\* C12: read_only, once set, stays set; while it is set the lock flag is set
\* and no guard exists; a lock() that starts after it was set makes one
\* failed exchange, reads read_only and returns None without a second
\* attempt; a share() that starts after it was set never enters take.
ReadOnlyIsOneWay ==
    /\ [][read_only => read_only']_vars
    /\ [](read_only => (locked /\ Guards = {}))
    /\ [](\A t \in Threads :
            late[t] => /\ lpc[t] # "held"
                       /\ (lop[t] = "share" => lpc[t] \in {"sh", "shared"}))
    /\ [][\A t \in Threads :
            (late[t] /\ lop[t] = "lock" /\ lpc'[t] # lpc[t]) =>
                \/ (lpc[t] = "cas" /\ lpc'[t] = "ro")
                \/ (lpc[t] = "ro" /\ lpc'[t] = "failed")
                \/ (lpc[t] = "failed" /\ lpc'[t] = "idle")]_vars

\* After read_only was set one thread's lock() has returned None and another
\* thread's share() has returned the reference.
ReadOnlyIsOneWayWitness ==
    /\ read_only
    /\ \E t, u \in Threads :
        /\ late[t] /\ lop[t] = "lock" /\ lpc[t] = "failed"
        /\ late[u] /\ lop[u] = "share" /\ lpc[u] = "shared"

\* ---------------------------------------------------------------- C13
\* C13: at most one SpinWriteGuard exists at a time and no SpinReadGuard
\* exists while one does; write() returns its guard only in a state where
\* the reader count is zero, read() returns its guard only in a state where
\* the write flag is clear; every read guard is counted in readers.
RWLockExclusion ==
    /\ [](/\ Cardinality(WriteGuards) <= 1
          /\ (WriteGuards # {} => (ReadGuards = {} /\ write))
          /\ Cardinality(ReadGuards) <= readers)
    /\ [][\A t \in Threads :
            (rwpc[t] # "writing" /\ rwpc'[t] = "writing") =>
                (readers = 0 /\ ReadGuards = {} /\ WriteGuards = {})]_vars
    /\ [][\A t \in Threads :
            (rwpc[t] # "reading" /\ rwpc'[t] = "reading") =>
                (~write /\ WriteGuards = {})]_vars

\* Two read guards exist together while a writer that has set the write
\* flag waits for the reader count to drop to zero.
RWLockExclusionWitness ==
    \E t, u, w \in Threads :
        /\ t # u
        /\ rwpc[t] = "reading" /\ rwpc[u] = "reading"
        /\ rwpc[w] = "wr_wait"

\* ---------------------------------------------------------------- C14
\* C14: while the flag is set no thread is asleep in wait (one signal wakes
\* every sleeper); a wait goes to sleep only when the flag is clear, so a
\* wait started after signal returns without blocking; wait returns only
\* when it finds the flag set; and every thread that signal has woken
\* returns from wait unless a reset clears the flag first.
EventSignalReleasesAll ==
    /\ [](eset => Sleepers = {})
    /\ [][\A t \in Threads :
            (epc[t] # "sleeping" /\ epc'[t] = "sleeping") => ~eset]_vars
    /\ [][\A t \in Threads :
            (epc[t] # "returned" /\ epc'[t] = "returned") => eset]_vars
    /\ \A t \in Threads :
          (epc[t] \in {"sleeping", "notified", "woken"} /\ eset)
              ~> (epc[t] = "returned" \/ ~eset)

\* One thread has signalled and two threads that were asleep have been
\* notified and have not run yet.
EventSignalReleasesAllWitness ==
    /\ eset
    /\ \E s, t, u \in Threads :
        /\ t # u
        /\ epc[s] = "signalled"
        /\ epc[t] = "notified" /\ epc[u] = "notified"

\* ---------------------------------------------------------------- C15
\* C15: with a single thread calling store, the Option a load reads from its
\* slot is a value, not None, and it is not older than the value of the
\* newest store that had returned when the load started, nor newer than the
\* value of the last store called.
LoadReturnsCurrentValue ==
    Cardinality(writers) <= 1 =>
        \A t \in Threads :
            apc[t] = "ld_drop" =>
                /\ aval[t] # None
                /\ lo[t] <= aval[t]
                /\ aval[t] <= nstore + 1

\* ---------------------------------------------------------------- C16
\* C16: in every reachable state the slot selected by the current index
\* holds a value.
CurrentSlotHoldsValue == data[GetIdx].val # None

\* ---------------------------------------------------------------- C17
\* C17: at most one thread at a time is between its acquisition of
\* write_guard and its return from store.
InStore(t) ==
    apc[t] \in {"st_unlock", "st_switch", "st_idx", "st_wcas", "st_wwait",
                "st_swap", "st_ret"}

StoresAreSerialized == Cardinality({t \in Threads : InStore(t)}) <= 1

\* ---------------------------------------------------------------- C18
\* C18: a load never finds the write flag of the slot it selected set, so it
\* never takes the back-off branch of read and is done after its own five
\* steps (index, count, flag, value, release).
LoadNeverWaits == \A t \in Threads : apc[t] # "ld_dec"

\* ---------------------------------------------------------------- C19
\* No thread of the then chain is inside a call.
ThenQuiet ==
    \A t \in {"caller", "srcOwner", "innOwner"} :
        tpc[t] \in {"idle", "done", "panicked"}

\* C19: set is called at most once on the new future's promise; when the new
\* future holds a value, the source and the inner cell have been resolved
\* and the value is the one the inner cell was resolved with; and once then
\* has been called, both cells have been resolved and every call has
\* returned, the new future holds that value - in whichever order the two
\* cells were resolved.
ThenResolvesOnce ==
    /\ resSets <= 1
    /\ (cells["res"].value # None) <=> (resSets = 1)
    /\ cells["res"].value # None =>
          /\ cells["src"].value # None
          /\ innerVal # None
          /\ cells["res"].value = innerVal
    /\ (ThenQuiet /\ cells["src"].value # None /\ innerVal # None) =>
          cells["res"].value = innerVal

\* Both promises were set by their owners, the inner one after the inner
\* closure had been pushed on the inner cell: the owner of the inner promise
\* ran the closure and resolved the new future, and every call has returned.
ThenResolvesOnceWitness ==
    /\ ThenQuiet
    /\ tpromise["src"] = "moved" /\ tpromise["inn"] = "moved"
    /\ resBy = "innOwner"
    /\ cells["res"].value = innerVal
    /\ innerVal # cells["src"].value

\* The other order: the inner cell was resolved first and the thread that
\* ran the outer closure resolved the new future inline.
ThenInlineWitness ==
    /\ ThenQuiet
    /\ tpromise["src"] = "moved" /\ tpromise["inn"] = "moved"
    /\ resBy = "srcOwner"
    /\ cells["res"].value = innerVal

\* ---------------------------------------------------------------- C20
\* C20: once the inner cell's value has been taken out, no callback is given
\* a reference to the value, and a subscribe or wait that starts afterwards
\* on another handle of the cell neither leaves its callback on the list,
\* nor sleeps on the event, nor is given a value.
MovedIsTerminal ==
    /\ ugot # "dangling"
    /\ ulate => /\ tpc["user"] \notin {"queued", "ev_sleep"}
                /\ ugot # "value"

\* ---------------------------------------------------------------- C21
\* C21: while a thread uses the reference share() returned, no guard exists
\* and read_only and locked are set; share() returns only in a state without
\* a guard; and from the moment a share() has returned no guard exists ever
\* again, so no later lock() returns Some - also when share() calls race
\* each other, lock() calls and guard drops.
ShareExcludesGuards ==
    /\ []((\E t \in Threads : lpc[t] = "shared") =>
            (Guards = {} /\ read_only /\ locked))
    /\ [][\A t \in Threads :
            (lpc[t] # "shared" /\ lpc'[t] = "shared") => Guards = {}]_vars
    /\ []((\E t \in Threads : lpc[t] = "shared") => [](Guards = {}))

\* Two share() calls that both started before read_only was set have both
\* returned, and a lock() that raced them has returned None.
ShareExcludesGuardsWitness ==
    \E t, u, w \in Threads :
        /\ t # u
        /\ lpc[t] = "shared" /\ ~late[t]
        /\ lpc[u] = "shared" /\ ~late[u]
        /\ lop[w] = "lock" /\ ~late[w] /\ lpc[w] = "failed"

\* ---------------------------------------------------------------- C22
\* The threads that hold the guard of the cell's lock, and those whose
\* failed fetch_add has not been undone yet.
CellGuards == {t \in Threads : pc[t] = "cs"}
CellUndoers == {t \in Threads : pc[t] = "undo"}

\* C22: at most one guard of the cell's counter spinlock exists at a time;
\* the counter equals the number of guards held plus the number of failed
\* attempts not yet undone; and it is 0 whenever no thread holds the lock
\* or is between a failed attempt and its undo.
CounterSpinlockExclusion ==
    /\ Cardinality(CellGuards) <= 1
    /\ cnt = Cardinality(CellGuards) + Cardinality(CellUndoers)
    /\ (CellGuards = {} /\ CellUndoers = {}) => cnt = 0

\* One thread holds the guard while the two others have each failed an
\* attempt that is not undone yet.
CounterSpinlockExclusionWitness ==
    /\ Cardinality(CellGuards) = 1
    /\ Cardinality(CellUndoers) = NThreads - 1
    /\ cnt = NThreads

====
